---- MODULE Spec2Model ----
(***************************************************************************)
(* A model of dungeon.py: the level generator (fill_room, random_door,     *)
(* create_path, add_staircase, make_level) and the navigation loop of      *)
(* __main__.                                                               *)
(*                                                                         *)
(* The grid is scaled down so that TLC can enumerate it: the source has    *)
(* X_DIM = 80, Y_DIM = 20, 3..5 rooms of width 5..20 and height 5..8; the  *)
(* model has a 10 x 13 grid and 3 rooms of width 2 and height 2.  MIN_SEP  *)
(* keeps its value.  Every operator reads the dimensions by name, as the   *)
(* source does.                                                            *)
(*                                                                         *)
(* A level is level[x][y], a list of X_DIM columns of Y_DIM cells, indexed *)
(* as Python indexes a list: -len..-1 count from the end, anything else    *)
(* outside 0..len-1 raises IndexError.                                     *)
(***************************************************************************)
EXTENDS Integers, Sequences, FiniteSets, TLC

VARIABLES
    levels,     \* __main__: the list of levels
    current,    \* __main__: index of the level the agent is on
    pos,        \* __main__: the agent's Point
    status,     \* __main__: "running", "quit" (break) or "error" (an exception left the loop)
    made,       \* history: the grids as make_level returned them, in order of creation
    last,       \* history: the agent's last level transition
    act,        \* history: what the last turn of the loop did, and on which key
    level,      \* make_level / create_path: the grid being worked on
    rooms,      \* make_level: the rooms committed so far
    want,       \* make_level: the room count drawn at line 153
    conn,       \* make_level: results of the create_path calls so far
    gpc,        \* make_level: where the generator is
    p0,         \* create_path: start of the top-level call
    p1,         \* create_path: goal of the top-level call
    before,     \* history: the grid handed to the top-level create_path call
    stack,      \* create_path: the frames of the recursion, innermost last
    ret,        \* create_path: "none" while a call runs, else the value being returned
    carved      \* history: the points line 121 has set to '#' in this top-level call

navVars  == <<levels, current, pos, status, made, last, act>>
genVars  == <<level, rooms, want, conn, gpc>>
pathVars == <<p0, p1, before, stack, ret, carved>>
vars     == <<levels, current, pos, status, made, last, act,
              level, rooms, want, conn, gpc, p0, p1, before, stack, ret, carved>>

----------------------------------------------------------------------------
(* Dimensions and generator parameters (lines 10-22), scaled as said above. *)

X_DIM == 10
Y_DIM == 13

NUM_ROOMS   == <<3, 3>>
ROOM_HEIGHT == <<2, 2>>
ROOM_WIDTH  == <<2, 2>>

MIN_SEP == 2

\* The navigation loop never bounds len(levels); the model stops generating here.
MaxLevels == 2

----------------------------------------------------------------------------
(* Tiles: the values a cell holds (None and the characters of the source).  *)

None == "None"
Tiles == {None, "-", "|", ".", "+", "#", "$", "<", ">", "@"}

Point(x, y) == [x |-> x, y |-> y]
Room(x, y, width, height) == [x |-> x, y |-> y, width |-> width, height |-> height]


\* Python list indexing: which indices are accepted, and the element they name.
PyOk(i, n)  == -n <= i /\ i < n
PyIdx(i, n) == IF i < 0 THEN i + n ELSE i

Get(lv, x, y) == lv[PyIdx(x, X_DIM)][PyIdx(y, Y_DIM)]
Put(lv, x, y, v) == [lv EXCEPT ![PyIdx(x, X_DIM)][PyIdx(y, Y_DIM)] = v]
Indexable(x, y) == PyOk(x, X_DIM) /\ PyOk(y, Y_DIM)

\* find_staircase's "return None": a value that is no Point of any level
\* (TLC compares records field by field, so it is given integer fields)
NoPoint == [x |-> 0 - X_DIM - 1, y |-> 0 - Y_DIM - 1]

\* make_level, lines 146-148
EmptyLevel == [i \in 0..(X_DIM - 1) |-> [j \in 0..(Y_DIM - 1) |-> None]]

InGrid(p) == p.x \in 0..(X_DIM - 1) /\ p.y \in 0..(Y_DIM - 1)

----------------------------------------------------------------------------
(* fill_room, lines 48-85.  Every read is of the level passed in, in the   *)
(* order of the three loops; the first read that is out of range raises,   *)
(* the first that finds a tile returns None.                               *)

\* lines 58-59: the footprint, row by row
FootprintSeq(room) ==
    [k \in 1..((room.height + 1) * (room.width + 1)) |->
        Point(room.x + ((k - 1) % (room.width + 1)),
              room.y + ((k - 1) \div (room.width + 1)))]

\* lines 72-76: left and right of each row, MIN_SEP away
SideSeq(room) ==
    [k \in 1..(2 * (room.height + 1)) |->
        IF (k - 1) % 2 = 0
        THEN Point(room.x - MIN_SEP, room.y + ((k - 1) \div 2))
        ELSE Point(room.x + room.width + MIN_SEP, room.y + ((k - 1) \div 2))]

\* lines 79-83: above and below each column, MIN_SEP away
AboveBelowSeq(room) ==
    [k \in 1..(2 * (room.width + 1)) |->
        IF (k - 1) % 2 = 0
        THEN Point(room.x + ((k - 1) \div 2), room.y - MIN_SEP)
        ELSE Point(room.x + ((k - 1) \div 2), room.y + room.height + MIN_SEP)]

FillReads(room) == FootprintSeq(room) \o SideSeq(room) \o AboveBelowSeq(room)

\* lines 64-69
RoomTile(room, i, j) ==
    IF j = 0 \/ j = room.height THEN "-"
    ELSE IF i = 0 \/ i = room.width THEN "|"
    ELSE "."

\* lines 55-69: the copy with the room drawn (the footprint is inside the
\* grid whenever this is reached: its reads were in range and x, y >= MIN_SEP)
Painted(lv, room) ==
    [x \in 0..(X_DIM - 1) |-> [y \in 0..(Y_DIM - 1) |->
        IF /\ x - room.x \in 0..room.width
           /\ y - room.y \in 0..room.height
        THEN RoomTile(room, x - room.x, y - room.y)
        ELSE lv[x][y]]]

\* The read that decides the call: 0 when every read is in range and finds None
FirstHit(lv, room) ==
    LET reads == FillReads(room)
        hits  == {k \in 1..Len(reads) :
                    \/ ~Indexable(reads[k].x, reads[k].y)
                    \/ Get(lv, reads[k].x, reads[k].y) # None}
    IN  IF hits = {} THEN 0 ELSE CHOOSE k \in hits : \A m \in hits : k <= m

FillRoom(lv, room) ==
    LET reads == FillReads(room)
        k     == FirstHit(lv, room)
    IN  IF k = 0 THEN [kind |-> "level", level |-> Painted(lv, room)]
        ELSE IF ~Indexable(reads[k].x, reads[k].y) THEN [kind |-> "IndexError"]
        ELSE [kind |-> "None"]

----------------------------------------------------------------------------
(* dist and create_path, lines 88-125.                                      *)

\* dist is used only as a sort key: the square root is monotone, so the
\* squared distance orders the points the same way, ties included.
dist2(a, b) == (a.x - b.x) * (a.x - b.x) + (a.y - b.y) * (a.y - b.y)

\* line 101
Directions == << <<-1, 0>>, <<1, 0>>, <<0, -1>>, <<0, 1>> >>

Neighbour(p, k) == Point(p.x + Directions[k][1], p.y + Directions[k][2])

\* a neighbour is kept even when it holds the marker
Eligible_Marked(lv, p) ==
    /\ ~(p.x >= X_DIM \/ p.x < 0)
    /\ ~(p.y >= Y_DIM \/ p.y < 0)
    /\ lv[p.x][p.y] \in {None, "#", "$"}

\* a neighbour is kept when it is a horizontal wall, too
Eligible_Wall(lv, p) ==
    /\ ~(p.x >= X_DIM \/ p.x < 0)
    /\ ~(p.y >= Y_DIM \/ p.y < 0)
    /\ lv[p.x][p.y] \in {None, "#", "-"}

\* lines 106-111: the neighbour is kept
Eligible(lv, p) ==
    /\ ~(p.x >= X_DIM \/ p.x < 0)
    /\ ~(p.y >= Y_DIM \/ p.y < 0)
    /\ lv[p.x][p.y] \in {None, "#"}

\* lines 101-104: some neighbour is the goal (the loop returns at the first)
GoalAdjacent(p, goal) == \E k \in 1..4 : Neighbour(p, k) = goal

\* lines 100-113: the eligible neighbours, in the order of Directions
RECURSIVE Collect(_, _, _)
Collect(lv, p, k) ==
    IF k > 4 THEN << >>
    ELSE IF Eligible(lv, Neighbour(p, k))
         THEN <<Neighbour(p, k)>> \o Collect(lv, p, k + 1)
         ELSE Collect(lv, p, k + 1)

\* line 116: list.sort is stable, so equal keys keep their order
RECURSIVE SortByDist(_, _)
SortByDist(points, goal) ==
    IF Len(points) = 0 THEN << >>
    ELSE LET m == CHOOSE i \in 1..Len(points) :
                     \A j \in 1..Len(points) :
                        \/ dist2(points[i], goal) < dist2(points[j], goal)
                        \/ /\ dist2(points[i], goal) = dist2(points[j], goal)
                           /\ i <= j
             rest == [j \in 1..(Len(points) - 1) |->
                        IF j < m THEN points[j] ELSE points[j + 1]]
         IN  <<points[m]>> \o SortByDist(rest, goal)

\* a search that tries only the neighbour nearest to the goal
Points_NearestOnly(lv, p, goal) ==
    LET sorted == SortByDist(Collect(lv, p, 1), goal)
    IN  IF sorted = << >> THEN << >> ELSE <<sorted[1]>>

\* the neighbours tried in the order of Directions, unsorted
Points_Unsorted(lv, p, goal) == Collect(lv, p, 1)

Points(lv, p, goal) == SortByDist(Collect(lv, p, 1), goal)

\* lines 95-125.  The recursion is kept as the stack of its frames, the
\* innermost last.  A frame is one call past its loop over Directions: p is
\* its p0, points the sorted list, i the index of the point it has marked
\* and recursed into (0 before the first), old the tile that point held.
\* ret is "none" while a call runs, and "True" or "False" from a return
\* until the caller has acted on it.

Frame(p, points) == [p |-> p, points |-> points, i |-> 0, old |-> None]

\* lines 100-116, the head of a call made with the frames stk below it:
\* it returns True at once, or it is a frame about to loop over its points
Enter(stk, lv, p, goal) ==
    IF GoalAdjacent(p, goal)
    THEN [stack |-> stk, ret |-> "True"]
    ELSE [stack |-> Append(stk, Frame(p, Points(lv, p, goal))), ret |-> "none"]

Top == stack[Len(stack)]
Pop(stk) == SubSeq(stk, 1, Len(stk) - 1)

\* lines 118-120: the next point is marked and create_path is called on it
Marked(lv, q) == Put(lv, q.x, q.y, "$")

Try ==
    /\ gpc = "path" /\ ret = "none" /\ stack # << >>
    /\ Top.i < Len(Top.points)
    /\ LET q    == Top.points[Top.i + 1]
           here == [Top EXCEPT !.i = Top.i + 1, !.old = level[q.x][q.y]]
           e    == Enter(Append(Pop(stack), here), Marked(level, q), q, p1)
       IN  /\ level' = Marked(level, q)
           /\ stack' = e.stack
           /\ ret' = e.ret
    /\ UNCHANGED <<navVars, rooms, want, conn, gpc, p0, p1, before, carved>>

\* line 125: the points are used up
ReturnFalse ==
    /\ gpc = "path" /\ ret = "none" /\ stack # << >>
    /\ Top.i = Len(Top.points)
    /\ stack' = Pop(stack)
    /\ ret' = "False"
    /\ UNCHANGED <<navVars, level, rooms, want, conn, gpc, p0, p1, before, carved>>

\* lines 120-123: the caller gets the value of the call it made
\* a return of True that leaves the marker where it is
Committed_Kept(lv, q) == lv

\* a return of False that leaves the marker where it is
Restored_Kept(lv, q, old) == lv

Committed(lv, q) == Put(lv, q.x, q.y, "#")
Restored(lv, q, old) == Put(lv, q.x, q.y, old)

Resume ==
    /\ gpc = "path" /\ ret # "none" /\ stack # << >>
    /\ LET q == Top.points[Top.i]
       IN  IF ret = "True"
           THEN /\ level' = Committed(level, q)
                /\ stack' = Pop(stack)
                /\ ret' = "True"
                /\ carved' = Append(carved, q)
           ELSE /\ level' = Restored(level, q, Top.old)
                /\ stack' = stack
                /\ ret' = "none"
                /\ carved' = carved
    /\ UNCHANGED <<navVars, rooms, want, conn, gpc, p0, p1, before>>

\* the top-level call has returned
PathDone == gpc = "path" /\ stack = << >> /\ ret # "none"

----------------------------------------------------------------------------
(* random_door, lines 27-45; add_staircase, lines 128-139;                  *)
(* find_staircase, lines 201-209.                                           *)

\* offsets that run from corner to corner
DoorDraws_WithCorners(room) ==
    {[side |-> s, delta |-> d] : s \in {0, 2}, d \in 0..room.height}
    \cup {[side |-> s, delta |-> d] : s \in {1, 3}, d \in 0..room.width}

\* lines 34-38: the side and the offset along it that random.randint can give
DoorDraws(room) ==
    {[side |-> s, delta |-> d] : s \in {0, 2}, d \in 1..(room.height - 1)}
    \cup {[side |-> s, delta |-> d] : s \in {1, 3}, d \in 1..(room.width - 1)}

RandomDoor(room, draw) ==
    LET deltay0 == IF draw.side \in {0, 2} THEN draw.delta ELSE 0
        deltax0 == IF draw.side \in {1, 3} THEN draw.delta ELSE 0
        deltay  == IF draw.side = 1 THEN room.height ELSE deltay0
        deltax  == IF draw.side = 2 THEN room.width ELSE deltax0
    IN  Point(room.x + deltax, room.y + deltay)

\* lines 132-136: the points random.choice draws from
StairPoints(room) ==
    {Point(room.x + i, room.y + j) : i \in 1..(room.width - 1), j \in 1..(room.height - 1)}

\* line 139
AddStaircase(lv, p, staircase) == Put(lv, p.x, p.y, staircase)

\* The scan is row by row (j outside, i inside): the first match in that order
FindStaircase(lv, staircase) ==
    LET found == {p \in {Point(i, j) : i \in 0..(X_DIM - 1), j \in 0..(Y_DIM - 1)} :
                    lv[p.x][p.y] = staircase}
    IN  IF found = {} THEN NoPoint
        ELSE CHOOSE p \in found :
                \A q \in found : p.y < q.y \/ (p.y = q.y /\ p.x <= q.x)

----------------------------------------------------------------------------
(* make_level, lines 142-198, one action per draw of the random module.    *)
(* gpc is where the generator stands: "count" (line 153), "rooms" (the     *)
(* while loop), "connect" (line 182), "path" (inside create_path),         *)
(* "stairs" (line 194) and "idle" (not running).                           *)

\* lines 157-160: the candidates random.randint can give
RoomDraws ==
    {Room(x, y, w, h) : x \in MIN_SEP..X_DIM, y \in MIN_SEP..Y_DIM,
                        w \in ROOM_WIDTH[1]..ROOM_WIDTH[2],
                        h \in ROOM_HEIGHT[1]..ROOM_HEIGHT[2]}

\* line 34: the pairs of sides two calls of random_door can draw
SideDraws == (0..3) \X (0..3)

\* line 194: random.sample(rooms, 2) gives any two different rooms
StairDraws == {pr \in (1..NUM_ROOMS[2]) \X (1..NUM_ROOMS[2]) : pr[1] # pr[2]}

\* a boundary check that lets the margin end one cell past the grid
OffMap_OffByOne(room) ==
    \/ room.x + room.width + MIN_SEP > X_DIM
    \/ room.y + room.height + MIN_SEP > Y_DIM

\* lines 163-166: the map boundary check sends the loop round again
OffMap(room) ==
    \/ room.x + room.width + MIN_SEP >= X_DIM
    \/ room.y + room.height + MIN_SEP >= Y_DIM

\* lines 156-177, one turn of the while loop: "continue" (draw again),
\* "level" (the room is committed) or "IndexError" (fill_room raised)
TryRoom(lv, room) ==
    IF OffMap(room) THEN [kind |-> "continue"]
    ELSE IF FillRoom(lv, room).kind = "None" THEN [kind |-> "continue"]
    ELSE FillRoom(lv, room)

\* lines 185-186
WithDoors(lv, door0, door1) == Put(Put(lv, door0.x, door0.y, "+"), door1.x, door1.y, "+")

\* both staircases put on the point drawn for the first
Stairs_SamePoint(lv, pu, pd) == AddStaircase(AddStaircase(lv, pu, "<"), pu, ">")

\* lines 194-196
Stairs(lv, pu, pd) == AddStaircase(AddStaircase(lv, pu, "<"), pd, ">")

\* after the rooms (line 180) and after each connection: the for loop has
\* another turn, or the stairs are next
AfterRooms(nrooms, done) == IF done < nrooms - 1 THEN "connect" ELSE "stairs"

\* what a turn of the navigation loop leaves in the history variables
Did(kind, key) == [kind |-> kind, key |-> key]
Went(kind) == [kind |-> kind, from |-> current, prev |-> last.kind]

\* lines 146-153
DrawCount ==
    /\ gpc = "count"
    /\ want' \in NUM_ROOMS[1]..NUM_ROOMS[2]
    /\ level' = EmptyLevel
    /\ rooms' = << >>
    /\ conn' = << >>
    /\ gpc' = "rooms"
    /\ UNCHANGED <<navVars, pathVars>>

\* lines 155-177: one draw of the while loop, from the candidates cands
PlaceRoom(cands) ==
    /\ gpc = "rooms"
    /\ \E room \in cands :
         LET t == TryRoom(level, room)
         IN  IF t.kind = "continue"
             THEN UNCHANGED vars
             ELSE IF t.kind = "IndexError"
             THEN /\ status' = "error"
                  /\ gpc' = "idle"
                  /\ UNCHANGED <<levels, current, pos, made, last, act,
                                 level, rooms, want, conn, pathVars>>
             ELSE /\ level' = t.level
                  /\ rooms' = Append(rooms, room)
                  /\ gpc' = IF Len(rooms) + 1 < want THEN "rooms"
                            ELSE AfterRooms(Len(rooms) + 1, 0)
                  /\ UNCHANGED <<navVars, want, conn, pathVars>>

\* lines 180-189: the doors of the next pair are drawn and marked, and
\* create_path is called; sides are the pairs of sides that may be drawn
PickDoors(sides) ==
    /\ gpc = "connect"
    /\ LET room0 == rooms[Len(conn) + 1]
           room1 == rooms[Len(conn) + 2]
       IN  \E draw0 \in DoorDraws(room0), draw1 \in DoorDraws(room1) :
             /\ <<draw0.side, draw1.side>> \in sides
             /\ LET door0 == RandomDoor(room0, draw0)
                    door1 == RandomDoor(room1, draw1)
                    lv    == WithDoors(level, door0, door1)
                    e     == Enter(<< >>, lv, door0, door1)
                IN  /\ level' = lv
                    /\ before' = lv
                    /\ p0' = door0
                    /\ p1' = door1
                    /\ stack' = e.stack
                    /\ ret' = e.ret
    /\ carved' = << >>
    /\ gpc' = "path"
    /\ UNCHANGED <<navVars, rooms, want, conn>>

\* lines 189-191: the call has returned; its value changes nothing
Connected ==
    /\ PathDone
    /\ conn' = Append(conn, ret)
    /\ ret' = "none"
    /\ gpc' = AfterRooms(Len(rooms), Len(conn) + 1)
    /\ UNCHANGED <<navVars, level, rooms, want, p0, p1, before, stack, carved>>

\* lines 194-198, and what the caller does with the level: lines 244-246
\* at the start, lines 278-280 and 290 when the agent went down; pairs are
\* the (up, down) rooms random.sample may give
PlaceStairs(pairs) ==
    /\ gpc = "stairs"
    /\ \E up, down \in 1..Len(rooms) :
         /\ up # down
         /\ <<up, down>> \in pairs
         /\ \E pu \in StairPoints(rooms[up]), pd \in StairPoints(rooms[down]) :
              LET lv == Stairs(level, pu, pd)
              IN  /\ level' = lv
                  /\ made' = Append(made, lv)
                  /\ levels' = Append(levels, lv)
                  /\ current' = IF status = "start" THEN 0 ELSE current + 1
                  /\ pos' = FindStaircase(
                               Append(levels, lv)[(IF status = "start" THEN 0 ELSE current + 1) + 1],
                               "<")
                  /\ last' = IF status = "start" THEN last ELSE Went("down")
    /\ status' = "running"
    /\ gpc' = "idle"
    /\ UNCHANGED <<act, rooms, want, conn, pathVars>>

----------------------------------------------------------------------------
(* __main__, lines 240-290.  status is "start" until the first level is    *)
(* made (lines 242-246), "running" while the loop waits for a key,         *)
(* "descending" while line 278 is inside make_level, "quit" after the      *)
(* break and "error" once an exception has left the loop.                  *)

\* lines 264-271
MoveKeys == {"h", "j", "k", "l"}

Candidate(p, key) ==
    IF key = "h" THEN Point(p.x - 1, p.y)
    ELSE IF key = "j" THEN Point(p.x, p.y + 1)
    ELSE IF key = "k" THEN Point(p.x, p.y - 1)
    ELSE Point(p.x + 1, p.y)

\* the '@' is swapped in and never swapped back
Rendered_NotRestored(lv, p) == Put(lv, p.x, p.y, "@")

\* lines 256-258: '@' is swapped in for print_level and swapped back
Rendered(lv, p) ==
    Put(Put(lv, p.x, p.y, "@"), p.x, p.y, Get(lv, p.x, p.y))

\* lines 252-258 on the list of levels (level is levels[current] itself)
Shown == [levels EXCEPT ![current + 1] = Rendered(@, pos)]

\* line 275 reads level[newpos.x][newpos.y]
TileAt(lvls, cur, q) == Get(lvls[cur + 1], q.x, q.y)

\* line 286
Walkable == {".", "+", "#"}

\* a descent that lands on the '>' of the next level instead of its '<'
OnStairsDown_ToExit(lvls, cur) ==
    [current |-> cur + 1, pos |-> FindStaircase(lvls[cur + 2], ">")]

\* lines 279-280, for a level that exists already
OnStairsDown(lvls, cur) ==
    [current |-> cur + 1, pos |-> FindStaircase(lvls[cur + 2], "<")]

\* an ascent that leaves the agent where it was on level 0
OnStairsUp_StayPut(lvls, cur, cand) ==
    IF cur > 0
    THEN [current |-> cur - 1, pos |-> FindStaircase(lvls[cur], ">")]
    ELSE [current |-> cur, pos |-> pos]

\* an ascent without the test of line 283: levels[-1] is the last level
OnStairsUp_Unguarded(lvls, cur, cand) ==
    [current |-> cur - 1,
     pos |-> FindStaircase(lvls[IF cur > 0 THEN cur ELSE Len(lvls)], ">")]

\* an ascent that looks for '<' on the level above
OnStairsUp_ToEntrance(lvls, cur, cand) ==
    IF cur > 0
    THEN [current |-> cur - 1, pos |-> FindStaircase(lvls[cur], "<")]
    ELSE [current |-> cur, pos |-> cand]

\* lines 281-285 and 290
OnStairsUp(lvls, cur, cand) ==
    IF cur > 0
    THEN [current |-> cur - 1, pos |-> FindStaircase(lvls[cur], ">")]
    ELSE [current |-> cur, pos |-> cand]

\* a move that no tile blocks
OnOther_NeverBlocked(tile, p, cand) == cand

\* lines 286-290
OnOther(tile, p, cand) == IF tile \notin Walkable THEN p ELSE cand

Waiting == status = "running" /\ gpc = "idle"

\* lines 262-263
Quit ==
    /\ Waiting /\ pos # NoPoint
    /\ levels' = Shown
    /\ status' = "quit"
    /\ act' = Did("quit", "q")
    /\ UNCHANGED <<current, pos, made, last, genVars, pathVars>>

\* lines 272-273: any other key
Ignore ==
    /\ Waiting /\ pos # NoPoint
    /\ levels' = Shown
    /\ act' = Did("ignore", "other")
    /\ UNCHANGED <<current, pos, status, made, last, genVars, pathVars>>

\* An exception leaves the loop: line 256 when find_staircase gave None,
\* line 275 when the candidate is no index of the level (IndexError)
Crash(key) ==
    /\ Waiting
    /\ \/ /\ pos = NoPoint
          /\ UNCHANGED levels
       \/ /\ pos # NoPoint
          /\ ~Indexable(Candidate(pos, key).x, Candidate(pos, key).y)
          /\ levels' = Shown
    /\ status' = "error"
    /\ act' = Did("error", key)
    /\ UNCHANGED <<current, pos, made, last, genVars, pathVars>>

\* lines 275-278: onto '>' on the last level, make_level is called
DescendNew(key) ==
    /\ Waiting /\ pos # NoPoint
    /\ Len(levels) < MaxLevels
    /\ LET cand == Candidate(pos, key)
       IN  /\ Indexable(cand.x, cand.y)
           /\ TileAt(Shown, current, cand) = ">"
           /\ current = Len(levels) - 1
    /\ levels' = Shown
    /\ status' = "descending"
    /\ gpc' = "count"
    /\ act' = Did("down", key)
    /\ UNCHANGED <<current, pos, made, last, level, rooms, want, conn, pathVars>>

\* lines 275-280 and 290: onto '>' with the next level already there
Descend(key) ==
    /\ Waiting /\ pos # NoPoint
    /\ LET cand == Candidate(pos, key)
       IN  /\ Indexable(cand.x, cand.y)
           /\ TileAt(Shown, current, cand) = ">"
           /\ current # Len(levels) - 1
           /\ levels' = Shown
           /\ current' = OnStairsDown(Shown, current).current
           /\ pos' = OnStairsDown(Shown, current).pos
    /\ last' = Went("down")
    /\ act' = Did("down", key)
    /\ UNCHANGED <<status, made, genVars, pathVars>>

\* lines 281-285 and 290: onto '<'
StairsUp(key) ==
    /\ Waiting /\ pos # NoPoint
    /\ LET cand == Candidate(pos, key)
       IN  /\ Indexable(cand.x, cand.y)
           /\ TileAt(Shown, current, cand) = "<"
           /\ levels' = Shown
           /\ current' = OnStairsUp(Shown, current, cand).current
           /\ pos' = OnStairsUp(Shown, current, cand).pos
    /\ last' = IF current > 0 THEN Went("up") ELSE last
    /\ act' = Did(IF current > 0 THEN "up" ELSE "entrance", key)
    /\ UNCHANGED <<status, made, genVars, pathVars>>

\* lines 286-290: any other tile
Walk(key) ==
    /\ Waiting /\ pos # NoPoint
    /\ LET cand == Candidate(pos, key)
       IN  /\ Indexable(cand.x, cand.y)
           /\ TileAt(Shown, current, cand) \notin {">", "<"}
           /\ levels' = Shown
           /\ pos' = OnOther(TileAt(Shown, current, cand), pos, cand)
           /\ act' = Did(IF TileAt(Shown, current, cand) \in Walkable
                         THEN "step" ELSE "blocked", key)
    /\ UNCHANGED <<current, status, made, last, genVars, pathVars>>

----------------------------------------------------------------------------
(* The program: lines 242-246, then the loop.  The navigation is explored  *)
(* over the runs of make_level in which the three rooms touch corner to    *)
(* corner, the doors are on the sides below and the stairs in the rooms    *)
(* below; each is a run the generator can make (GenSpec draws from         *)
(* everything random can give).                                            *)

NavRooms ==
    LET w == ROOM_WIDTH[1]
        h == ROOM_HEIGHT[1]
    IN  << Room(MIN_SEP, MIN_SEP, w, h),
           Room(MIN_SEP + w + 1, MIN_SEP + h + 1, w, h),
           Room(MIN_SEP, MIN_SEP + 2 * (h + 1), w, h) >>

NavCandidates == {NavRooms[Len(rooms) + 1]}

NavSides == << { <<1, 1>> }, { <<1, 3>>, <<0, 0>> } >>

NavStairs == { <<1, 3>>, <<2, 1>> }

Init ==
    /\ levels = << >>
    /\ current = 0
    /\ pos = NoPoint
    /\ status = "start"
    /\ made = << >>
    /\ last = [kind |-> "none", from |-> 0, prev |-> "none"]
    /\ act = [kind |-> "none", key |-> "none"]
    /\ level = EmptyLevel
    /\ rooms = << >>
    /\ want = 0
    /\ conn = << >>
    /\ gpc = "count"
    /\ p0 = NoPoint
    /\ p1 = NoPoint
    /\ before = EmptyLevel
    /\ stack = << >>
    /\ ret = "none"
    /\ carved = << >>

Next ==
    \/ DrawCount
    \/ PlaceRoom(NavCandidates)
    \/ PickDoors(NavSides[Len(conn) + 1])
    \/ Try
    \/ ReturnFalse
    \/ Resume
    \/ Connected
    \/ PlaceStairs(NavStairs)
    \/ Quit
    \/ Ignore
    \/ \E key \in MoveKeys : Crash(key)
    \/ \E key \in MoveKeys : DescendNew(key)
    \/ \E key \in MoveKeys : Descend(key)
    \/ \E key \in MoveKeys : StairsUp(key)
    \/ \E key \in MoveKeys : Walk(key)

Spec == Init /\ [][Next]_vars

\* make_level alone, from everything the random module can give
GenNext ==
    \/ DrawCount
    \/ PlaceRoom(RoomDraws)
    \/ PickDoors(SideDraws)
    \/ Try
    \/ ReturnFalse
    \/ Resume
    \/ Connected
    \/ PlaceStairs(StairDraws)

GenSpec == Init /\ [][GenNext]_vars

----------------------------------------------------------------------------
(* Properties of the navigation loop, checked under Spec.                  *)

\* a turn of the loop on a move key
Turn(key) ==
    \/ Crash(key)
    \/ DescendNew(key)
    \/ Descend(key)
    \/ StairsUp(key)
    \/ Walk(key)

\* the step that ends a move onto '>': line 290 after lines 279-280
DescentDone ==
    \/ \E key \in MoveKeys : Descend(key)
    \/ PlaceStairs(StairDraws) /\ status = "descending"

Standable == {".", "+", "#", "<", ">"}
Blocking  == {None, "-", "|"}

C2_MovementSafety ==
    status \in {"running", "descending", "quit", "error"} =>
        /\ InGrid(pos)
        /\ levels[current + 1][pos.x][pos.y] \in Standable

\* C3: a move whose candidate is outside the grid raises nothing and
\* changes nothing: the loop goes on with the same position, current and
\* levels.
C3_OutOfGridMoveIsNoOp ==
    [][\A key \in MoveKeys :
         (Turn(key) /\ pos # NoPoint /\ ~InGrid(Candidate(pos, key))) =>
            /\ status' = "running"
            /\ pos' = pos
            /\ current' = current
            /\ levels' = levels]_vars

\* C4: a move onto StairsDown ('>') adds exactly 1 to current and puts the
\* agent on the StairsUp tile of the level that is then current; the list
\* of levels grows, by exactly one level at its end, if and only if current
\* was its last index, and no other turn of the loop changes its length.
C4_DescentIsLazy ==
    [][/\ DescentDone =>
            /\ current' = current + 1
            /\ InGrid(pos')
            /\ levels'[current' + 1][pos'.x][pos'.y] = "<"
            /\ Len(levels') = Len(levels) + 1 <=> current = Len(levels) - 1
            /\ Len(levels') \in {Len(levels), Len(levels) + 1}
            /\ SubSeq(levels', 1, Len(levels)) = levels
       /\ (~DescentDone /\ status # "start") => Len(levels') = Len(levels)]_vars

\* the agent went down to a new level, came back up and went down again
C4_Witness ==
    /\ status = "running" /\ act.kind = "down"
    /\ last = [kind |-> "down", from |-> 0, prev |-> "up"]
    /\ current = 1 /\ Len(levels) = 2
    /\ levels[2][pos.x][pos.y] = "<"

IndexOk(cur, lvls) == 0 <= cur /\ cur < Len(lvls) /\ Len(lvls) >= 1

\* C5: once the first level exists, 0 <= current < len(levels) and
\* len(levels) >= 1 in every state, and no step makes len(levels) smaller.
C5_IndexInvariant ==
    [][/\ status # "start" => IndexOk(current, levels)
       /\ status' # "start" => IndexOk(current', levels')
       /\ Len(levels') >= Len(levels)]_vars

C5_Witness ==
    /\ status = "running"
    /\ last.kind = "up" /\ last.prev = "down"
    /\ current = 0 /\ Len(levels) = 2

\* C6: a move whose candidate is inside the grid on an Empty, WallHorizontal
\* or WallVertical tile leaves position, current and every level as they were.
C6_BlockedMoveIsNoOp ==
    [][\A key \in MoveKeys :
         (/\ Turn(key) /\ pos # NoPoint
          /\ InGrid(Candidate(pos, key))
          /\ TileAt(levels, current, Candidate(pos, key)) \in Blocking) =>
            /\ pos' = pos
            /\ current' = current
            /\ levels' = levels
            /\ status' = status]_vars

C6_Witness ==
    /\ status = "running" /\ act.kind = "blocked"
    /\ InGrid(pos) /\ InGrid(Candidate(pos, act.key))
    /\ TileAt(levels, current, Candidate(pos, act.key)) \in Blocking

\* C7: when the agent's last level transition was a descent from level k
\* and it now moves onto StairsUp, then afterwards current = k and the agent
\* is on the StairsDown tile of level k; no level is created and the grid of
\* level k is the one make_level returned for it.
C7_RoundTrip ==
    [][\A key \in MoveKeys :
         (StairsUp(key) /\ current > 0 /\ last.kind = "down") =>
            /\ current' = last.from
            /\ InGrid(pos')
            /\ made[last.from + 1][pos'.x][pos'.y] = ">"
            /\ levels' = levels
            /\ levels'[last.from + 1] = made[last.from + 1]]_vars

C7_Witness ==
    /\ status = "running" /\ act.kind = "up"
    /\ last.kind = "up" /\ last.prev = "down"
    /\ current = last.from - 1
    /\ levels[current + 1][pos.x][pos.y] = ">"

----------------------------------------------------------------------------
(* Properties of make_level, checked under GenSpec.                        *)

\* make_level has returned: the level is in levels
Returned == gpc = "idle" /\ status = "running"

\* the footprint of b meets the footprint of a grown by MIN_SEP on all sides
TooClose(a, b) ==
    /\ b.x <= a.x + a.width + MIN_SEP
    /\ a.x - MIN_SEP <= b.x + b.width
    /\ b.y <= a.y + a.height + MIN_SEP
    /\ a.y - MIN_SEP <= b.y + b.height

\* C8: in every level make_level returns, no tile of a room's footprint lies
\* in the footprint of another room expanded by MIN_SEP tiles on all four
\* sides, corner regions included.
C8_RoomSeparation ==
    Returned =>
        \A i, j \in 1..Len(rooms) : i # j => ~TooClose(rooms[i], rooms[j])

----------------------------------------------------------------------------
(* create_path on its own: the calls create_path(level, start, goal) on    *)
(* the grids that are wall everywhere but in a window of PathLen by 2      *)
(* cells in a corner of the grid, where start and goal are two doors and   *)
(* every other cell is empty, a wall or a corridor.                        *)

PathLen == 3

Anchors == {Point(0, 0), Point(X_DIM - PathLen, Y_DIM - 2)}

Window(a) == {Point(a.x + i, a.y + j) : i \in 0..(PathLen - 1), j \in 0..1}

PathGrid(a, start, goal, fill) ==
    [x \in 0..(X_DIM - 1) |-> [y \in 0..(Y_DIM - 1) |->
        IF Point(x, y) \in {start, goal} THEN "+"
        ELSE IF Point(x, y) \in Window(a) THEN fill[Point(x, y)]
        ELSE "-"]]

PathInit ==
    /\ levels = << >> /\ current = 0 /\ pos = NoPoint /\ status = "start"
    /\ made = << >>
    /\ last = [kind |-> "none", from |-> 0, prev |-> "none"]
    /\ act = [kind |-> "none", key |-> "none"]
    /\ rooms = << >> /\ want = 0 /\ conn = << >>
    /\ gpc = "path"
    /\ carved = << >>
    /\ \E a \in Anchors :
         \E start \in Window(a), goal \in Window(a) :
           /\ start # goal
           /\ \E fill \in [Window(a) \ {start, goal} -> {None, "-", "#"}] :
                LET lv == PathGrid(a, start, goal, fill)
                    e  == Enter(<< >>, lv, start, goal)
                IN  /\ level = lv
                    /\ before = lv
                    /\ p0 = start
                    /\ p1 = goal
                    /\ stack = e.stack
                    /\ ret = e.ret

PathNext == Try \/ ReturnFalse \/ Resume

PathSpec == PathInit /\ [][PathNext]_vars

\* C9: whenever the top-level call of create_path returns False, every cell
\* of the grid holds the value it held before the call.
C9_FailedConnectLeavesNoTrace ==
    (gpc = "path" /\ PathDone /\ ret = "False") => level = before

\* the call failed after it had marked a neighbour of the start
C9_Witness ==
    /\ gpc = "path" /\ PathDone /\ ret = "False"
    /\ level = before
    /\ \E k \in 1..4 : Eligible(before, Neighbour(p0, k))

----------------------------------------------------------------------------
(* The corridor of a successful call, checked under GenSpec.               *)

Adjacent(p, q) ==
    \/ p.x = q.x /\ (p.y = q.y + 1 \/ q.y = p.y + 1)
    \/ p.y = q.y /\ (p.x = q.x + 1 \/ q.x = p.x + 1)

Cells == {Point(x, y) : x \in 0..(X_DIM - 1), y \in 0..(Y_DIM - 1)}

CarvedCells == {carved[i] : i \in 1..Len(carved)}

\* C10: whenever the top-level call of create_path returns True, no marker
\* is left, the cells the call changed or went through are all Corridor and
\* are one chain of orthogonally adjacent cells from a neighbour of the goal
\* to a neighbour of the start (or start and goal are neighbours and no cell
\* was carved).
C10_PathValidity ==
    (gpc = "path" /\ PathDone /\ ret = "True") =>
        /\ \A c \in Cells : level[c.x][c.y] # "$"
        /\ \A c \in Cells : level[c.x][c.y] # before[c.x][c.y] => c \in CarvedCells
        /\ \A c \in CarvedCells : InGrid(c) /\ level[c.x][c.y] = "#"
        /\ \A i \in 1..(Len(carved) - 1) : Adjacent(carved[i], carved[i + 1])
        /\ IF carved = << >>
           THEN Adjacent(p0, p1)
           ELSE Adjacent(carved[1], p1) /\ Adjacent(carved[Len(carved)], p0)

\* a corridor of several cells carved through empty tiles round a corner
C10_Witness ==
    /\ gpc = "path" /\ PathDone /\ ret = "True"
    /\ Len(carved) >= 3
    /\ \A c \in CarvedCells : before[c.x][c.y] = None
    /\ carved[1].x # carved[Len(carved)].x
    /\ carved[1].y # carved[Len(carved)].y

----------------------------------------------------------------------------
(* The stairs of a level, checked under GenSpec.                           *)

TilesOf(lv, t) == {c \in Cells : lv[c.x][c.y] = t}

\* C11: every level make_level returns holds exactly one StairsUp and
\* exactly one StairsDown tile, each on an interior tile of a room, in two
\* different rooms; find_staircase finds both.
C11_StaircaseUniqueness ==
    Returned =>
        /\ Cardinality(TilesOf(level, "<")) = 1
        /\ Cardinality(TilesOf(level, ">")) = 1
        /\ \E i, j \in 1..Len(rooms) :
             /\ i # j
             /\ TilesOf(level, "<") \subseteq StairPoints(rooms[i])
             /\ TilesOf(level, ">") \subseteq StairPoints(rooms[j])
        /\ FindStaircase(level, "<") \in TilesOf(level, "<")
        /\ FindStaircase(level, ">") \in TilesOf(level, ">")
        /\ levels[Len(levels)] = level

\* a returned level with the stairs up in the last room and down in the first
C11_Witness ==
    /\ Returned
    /\ Len(rooms) = 3
    /\ FindStaircase(level, "<") \in StairPoints(rooms[3])
    /\ FindStaircase(level, ">") \in StairPoints(rooms[1])

----------------------------------------------------------------------------
(* The stored levels, checked under Spec.                                  *)

\* C12: whenever the loop waits for a key (and after it has ended), every
\* grid in levels equals the grid make_level returned for it, and no stored
\* level holds the agent marker '@'.
C12_LevelsAreImmutable ==
    status # "start" =>
        /\ levels = made
        /\ \A k \in 1..Len(levels) : TilesOf(levels[k], "@") = {}

\* the loop waits for a key after steps on two levels and a way back up
C12_Witness ==
    /\ Waiting
    /\ Len(levels) = 2 /\ levels = made
    /\ last.kind = "up" /\ act.kind = "step"
    /\ levels[current + 1][pos.x][pos.y] = "#"

----------------------------------------------------------------------------
(* The rooms of make_level, checked under GenSpec.                         *)

RoomInBounds(room) ==
    /\ room.x >= MIN_SEP
    /\ room.y >= MIN_SEP
    /\ room.x + room.width + MIN_SEP < X_DIM
    /\ room.y + room.height + MIN_SEP < Y_DIM

\* C13: every room make_level has committed has x >= MIN_SEP, y >= MIN_SEP,
\* x + width + MIN_SEP < X_DIM and y + height + MIN_SEP < Y_DIM, every cell
\* fill_room reads or writes for it is inside the grid, and fill_room never
\* raises on a room that passed the boundary check.
C13_RoomBounds ==
    /\ status # "error"
    /\ \A i \in 1..Len(rooms) :
         /\ RoomInBounds(rooms[i])
         /\ LET reads == FillReads(rooms[i])
            IN  \A k \in 1..Len(reads) : InGrid(reads[k])

\* a committed room as far right and as far down as the check lets it be
C13_Witness ==
    /\ gpc = "rooms"
    /\ \E i \in 1..Len(rooms) :
         /\ rooms[i].x + rooms[i].width + MIN_SEP = X_DIM - 1
         /\ rooms[i].y + rooms[i].height + MIN_SEP = Y_DIM - 1
         /\ level[rooms[i].x + rooms[i].width][rooms[i].y + rooms[i].height] = "-"

----------------------------------------------------------------------------
(* create_path as make_level calls it and as it is called on its own: the  *)
(* runs of GenSpec together with the calls of PathSpec.  A call of         *)
(* PathSpec ends where its value is handed back (Connected).               *)

CallInit == Init \/ PathInit

CallSpec == CallInit /\ [][GenNext]_vars

\* C14: once a top-level call of create_path has returned, with True or
\* with False, no cell of the grid holds the marker '$'; no level that
\* make_level returns holds it.
C14_MarkerNeverPersists ==
    (gpc # "path" \/ PathDone) =>
        /\ TilesOf(level, "$") = {}
        /\ \A k \in 1..Len(levels) : TilesOf(levels[k], "$") = {}

\* a call that returned False after marking a cell two steps from the start
C14_Witness ==
    /\ gpc = "path" /\ PathDone /\ ret = "False"
    /\ TilesOf(level, "$") = {}
    /\ \E k, m \in 1..4 :
         /\ Eligible(before, Neighbour(p0, k))
         /\ Eligible(before, Neighbour(Neighbour(p0, k), m))

----------------------------------------------------------------------------
(* The retry loop of make_level, checked under GenSpec.                    *)

\* the draws of lines 157-160 that the loop would commit on this grid
Placeable(lv) == {room \in RoomDraws : TryRoom(lv, room).kind = "level"}

\* C15: whenever make_level has committed fewer rooms than the count it
\* drew, some candidate (x, y, width, height) of the sampled ranges passes
\* the boundary check and fill_room, so the retry loop can end.
C15_PlacementFindsSpot ==
    (gpc = "rooms" /\ Len(rooms) < want) => Placeable(level) # {}

----------------------------------------------------------------------------
(* The recursion of create_path, checked under PathFairSpec: the calls of  *)
(* PathSpec, with the interpreter going on with a call that is running.    *)

PathFairSpec == PathSpec /\ WF_vars(PathNext)

\* the cells the calls below the top-level one were made on, outermost first
ChainCells == {stack[k].p : k \in 2..Len(stack)}

\* the cell of a call that has returned and whose caller has not yet
\* written '#' or the old tile over it
Pending == IF ret # "none" /\ stack # << >> THEN {Top.points[Top.i]} ELSE {}

ChainIsMarked ==
    gpc = "path" =>
        /\ TilesOf(level, "$") = ChainCells \cup Pending
        /\ stack # << >> =>
              Cardinality(ChainCells \cup Pending) = Len(stack) - 1 + Cardinality(Pending)
        /\ Len(stack) <= X_DIM * Y_DIM

\* C16: every top-level call of create_path returns; while it runs the
\* cells holding the marker '$' are exactly the cells of the recursion
\* chain, no cell is on the chain twice, and the depth of the recursion is
\* at most the number of cells of the grid.
C16_CreatePathTerminates ==
    /\ []ChainIsMarked
    /\ <>PathDone

\* a running call two deep
C16_Witness ==
    /\ gpc = "path" /\ ret = "none"
    /\ Len(stack) = 3
    /\ TilesOf(level, "$") = ChainCells
    /\ Cardinality(ChainCells) = 2

----------------------------------------------------------------------------
(* What create_path finds, checked under SearchSpec: the calls of          *)
(* PathSpec, and the calls on the grids that are wall everywhere but in a  *)
(* square of WideLen by WideLen cells in the corner (0, 0), where start    *)
(* and goal are two doors and every other cell is empty or a wall.  In the *)
(* square the nearest neighbour can be a dead end while another leads on.  *)

WideLen == 3

WideWindow == {Point(i, j) : i \in 0..(WideLen - 1), j \in 0..(WideLen - 1)}

WideGrid(start, goal, fill) ==
    [x \in 0..(X_DIM - 1) |-> [y \in 0..(Y_DIM - 1) |->
        IF Point(x, y) \in {start, goal} THEN "+"
        ELSE IF Point(x, y) \in WideWindow THEN fill[Point(x, y)]
        ELSE "-"]]

WideInit ==
    /\ levels = << >> /\ current = 0 /\ pos = NoPoint /\ status = "start"
    /\ made = << >>
    /\ last = [kind |-> "none", from |-> 0, prev |-> "none"]
    /\ act = [kind |-> "none", key |-> "none"]
    /\ rooms = << >> /\ want = 0 /\ conn = << >>
    /\ gpc = "path"
    /\ carved = << >>
    /\ \E start \in WideWindow, goal \in WideWindow :
         /\ start # goal
         /\ \E fill \in [WideWindow \ {start, goal} -> {None, "-"}] :
              LET lv == WideGrid(start, goal, fill)
                  e  == Enter(<< >>, lv, start, goal)
              IN  /\ level = lv
                  /\ before = lv
                  /\ p0 = start
                  /\ p1 = goal
                  /\ stack = e.stack
                  /\ ret = e.ret

SearchSpec == (PathInit \/ WideInit) /\ [][PathNext]_vars

\* the cells a corridor may go through: Empty or Corridor
Open(lv) == {c \in Cells : lv[c.x][c.y] \in {None, "#"}}

\* the open cells that a chain of adjacent open cells joins to a cell of S
RECURSIVE Joined(_, _)
Joined(open, S) ==
    LET more == S \cup {c \in open : \E d \in S : Adjacent(c, d)}
    IN  IF more = S THEN S ELSE Joined(open, more)

\* goal is next to start, or a chain of open cells leads from a neighbour
\* of start to a neighbour of goal
RouteExists(lv, start, goal) ==
    \/ Adjacent(start, goal)
    \/ LET open == Open(lv)
       IN  \E c \in Joined(open, {d \in open : Adjacent(d, start)}) : Adjacent(c, goal)

\* C17: the top-level call of create_path returns True if and only if the
\* goal is orthogonally adjacent to the start or a chain of in-bounds,
\* orthogonally adjacent Empty or Corridor cells leads from a neighbour of
\* the start to a neighbour of the goal.
C17_SearchIsComplete ==
    (gpc = "path" /\ PathDone) =>
        (ret = "True" <=> RouteExists(before, p0, p1))

\* a route found through the neighbour of the start that is farther from
\* the goal, the nearer one being open and a dead end
C17_Witness ==
    /\ gpc = "path" /\ PathDone /\ ret = "True"
    /\ Len(carved) >= 3
    /\ \E k \in 1..4 :
         /\ Eligible(before, Neighbour(p0, k))
         /\ Neighbour(p0, k) \notin CarvedCells
         /\ dist2(Neighbour(p0, k), p1) < dist2(carved[Len(carved)], p1)

----------------------------------------------------------------------------
(* What create_path changes, checked under CallSpec.                       *)

\* C18: once a top-level call of create_path has returned, every cell that
\* differs from its value before the call was Empty and is Corridor; walls,
\* floors, doors (start and goal among them), stairs and corridors that
\* were there before hold the value they held.
C18_CorridorsCrossNothing ==
    (gpc = "path" /\ PathDone) =>
        \A c \in Cells :
            level[c.x][c.y] # before[c.x][c.y] =>
                before[c.x][c.y] = None /\ level[c.x][c.y] = "#"

\* a corridor between rooms that runs over a corridor carved earlier
C18_Witness ==
    /\ gpc = "path" /\ PathDone /\ ret = "True"
    /\ rooms # << >>
    /\ level[p0.x][p0.y] = "+" /\ level[p1.x][p1.y] = "+"
    /\ \E c \in CarvedCells : before[c.x][c.y] = "#"
    /\ \E c \in CarvedCells : before[c.x][c.y] = None

----------------------------------------------------------------------------
(* The straight route, checked under StraightSpec: the calls whose start   *)
(* is a door in a corner or in the middle of the grid and whose goal is a  *)
(* door on the same row or column, with only empty cells between them, on  *)
(* a grid that is otherwise all empty, all wall or all corridor; and the   *)
(* calls of the square of WideInit.                                        *)

\* the cells strictly between two points of one row or one column
Between(s, g) ==
    {c \in Cells :
        \/ /\ c.y = s.y /\ s.y = g.y
           /\ (s.x < c.x /\ c.x < g.x) \/ (g.x < c.x /\ c.x < s.x)
        \/ /\ c.x = s.x /\ s.x = g.x
           /\ (s.y < c.y /\ c.y < g.y) \/ (g.y < c.y /\ c.y < s.y)}

InLine(s, g) == s # g /\ (s.x = g.x \/ s.y = g.y)

StraightGrid(start, goal, around) ==
    LET between == Between(start, goal)
    IN  [x \in 0..(X_DIM - 1) |-> [y \in 0..(Y_DIM - 1) |->
            IF Point(x, y) \in {start, goal} THEN "+"
            ELSE IF Point(x, y) \in between THEN None
            ELSE around]]

\* the starts: two corners of the grid and its middle
StraightStarts ==
    {Point(0, 0), Point(X_DIM - 1, Y_DIM - 1), Point(X_DIM \div 2, Y_DIM \div 2)}

\* the cells in line with a start
LineOf(start) ==
    {Point(x, start.y) : x \in 0..(X_DIM - 1)} \cup {Point(start.x, y) : y \in 0..(Y_DIM - 1)}

StraightInit ==
    /\ levels = << >> /\ current = 0 /\ pos = NoPoint /\ status = "start"
    /\ made = << >>
    /\ last = [kind |-> "none", from |-> 0, prev |-> "none"]
    /\ act = [kind |-> "none", key |-> "none"]
    /\ rooms = << >> /\ want = 0 /\ conn = << >>
    /\ gpc = "path"
    /\ carved = << >>
    /\ \E start \in StraightStarts : \E goal \in LineOf(start) :
         /\ InLine(start, goal)
         /\ \E around \in {None, "-", "#"} :
              LET lv == StraightGrid(start, goal, around)
                  e  == Enter(<< >>, lv, start, goal)
              IN  /\ level = lv
                  /\ before = lv
                  /\ p0 = start
                  /\ p1 = goal
                  /\ stack = e.stack
                  /\ ret = e.ret

StraightSpec == (StraightInit \/ WideInit) /\ [][PathNext]_vars

\* start and goal are in line and every cell strictly between them is Empty
StraightAndFree(lv, s, g) ==
    InLine(s, g) /\ \A c \in Between(s, g) : lv[c.x][c.y] = None

\* C19: when start and goal lie on one row or one column at distance
\* d >= 1 and the d - 1 cells strictly between them are Empty, the top-level
\* call of create_path returns True and the cells it carves, and the cells
\* it changes, are exactly those d - 1 cells.
C19_StraightRoute ==
    (gpc = "path" /\ PathDone /\ StraightAndFree(before, p0, p1)) =>
        LET between == Between(p0, p1)
        IN  /\ ret = "True"
            /\ CarvedCells = between
            /\ Len(carved) = Cardinality(between)
            /\ \A c \in Cells :
                 level[c.x][c.y] = IF c \in between THEN "#" ELSE before[c.x][c.y]

\* doors 10 apart on one column of an empty grid: 9 Corridor tiles
C19_Witness ==
    /\ gpc = "path" /\ PathDone /\ ret = "True"
    /\ p0.x = p1.x /\ p1.y = p0.y + 10
    /\ Len(carved) = 9
    /\ \A c \in Between(p0, p1) : before[c.x][c.y] = None /\ level[c.x][c.y] = "#"
    /\ before[X_DIM - 1][Y_DIM - 1] = None

----------------------------------------------------------------------------
(* The doors, checked under GenSpec.                                       *)

\* p is on the border of the room and is none of its four corners
OnWallOffCorner(room, p) ==
    \/ /\ p.x \in {room.x, room.x + room.width}
       /\ room.y < p.y /\ p.y < room.y + room.height
    \/ /\ p.y \in {room.y, room.y + room.height}
       /\ room.x < p.x /\ p.x < room.x + room.width

\* the cell across the wall from the room
JustOutside(room, p) ==
    IF p.x = room.x THEN Point(p.x - 1, p.y)
    ELSE IF p.x = room.x + room.width THEN Point(p.x + 1, p.y)
    ELSE IF p.y = room.y THEN Point(p.x, p.y - 1)
    ELSE Point(p.x, p.y + 1)

InFootprint(room, c) ==
    /\ room.x <= c.x /\ c.x <= room.x + room.width
    /\ room.y <= c.y /\ c.y <= room.y + room.height

\* the sizes of lines 18-19, as the source has them
SourceSizes == {Room(0, 0, w, h) : w \in 5..20, h \in 5..8}

DoorIsSound(lv, room, p) ==
    /\ OnWallOffCorner(room, p)
    /\ lv[p.x][p.y] \in {"-", "|", "+"}
    /\ InGrid(JustOutside(room, p))
    /\ \A k \in 1..Len(rooms) : ~InFootprint(rooms[k], JustOutside(room, p))

\* C20: for every room size of the source's ranges and every draw,
\* random_door returns a point of the room's border that is not a corner;
\* and when make_level marks the two doors of a connection, each overwrites
\* a wall tile or an earlier door, nothing else changes, and the cell just
\* outside each door belongs to no room.
C20_DoorsOnWalls ==
    /\ \A room \in SourceSizes : \A draw \in DoorDraws(room) :
          OnWallOffCorner(room, RandomDoor(room, draw))
    /\ [][(gpc = "connect" /\ gpc' = "path") =>
            /\ DoorIsSound(level, rooms[Len(conn) + 1], p0')
            /\ DoorIsSound(level, rooms[Len(conn) + 2], p1')
            /\ \A c \in Cells :
                 level'[c.x][c.y] = IF c \in {p0', p1'} THEN "+" ELSE level[c.x][c.y]]_vars

\* the second connection starts at the door the first one ended at
C20_Witness ==
    /\ gpc = "path" /\ Len(conn) = 1
    /\ OnWallOffCorner(rooms[2], p0) /\ OnWallOffCorner(rooms[3], p1)
    /\ level[p0.x][p0.y] = "+" /\ level[p1.x][p1.y] = "+"
    /\ \E c \in Cells : Adjacent(c, p0) /\ level[c.x][c.y] = "#" /\ stack # << >>

====
